---------------------------- MODULE Spec2Model ----------------------------
(***************************************************************************)
(* The real-time voice relay of backend/routers/voice.py: the websocket    *)
(* handler voice_stream and its two forwarding coroutines,                 *)
(* forward_client_to_gemini and forward_gemini_to_client, which run as     *)
(* asyncio tasks on one event loop.  An action of the model is the code a  *)
(* coroutine runs between two suspension points (awaits); a send is        *)
(* logged when it is issued and its outcome (completed or raised) is the   *)
(* next step of the coroutine that awaits it.                              *)
(***************************************************************************)
EXTENDS Naturals, Sequences, FiniteSets, TLC

(* ------------------------------ bounds --------------------------------- *)
\* frames and messages the two forwarders receive in one session, together
MaxFrames == 2

(* ------------------------------ values --------------------------------- *)
\* Python's None for an identifier is the empty option, a value v is <<v>>
None == <<>>

\* Python truthiness of an optional integer: None and 0 are falsy
Truthy(opt) == opt # None /\ opt[1] # 0

Last(s) == s[Len(s)]

\* "".join(parts)
RECURSIVE Join(_)
Join(parts) == IF parts = <<>> THEN "" ELSE Head(parts) \o Join(Tail(parts))

(* --------------------------- client frames ----------------------------- *)
\* A frame as it arrives on the client socket.  wire says what json.loads
\* makes of the payload: an object, a JSON value that is no object, or a
\* payload that is no JSON at all.
Frame(t, d) == [wire |-> "object", type |-> t, data |-> d]
NotJsonFrame == [wire |-> "not_json", type |-> "", data |-> ""]
NotObjectFrame == [wire |-> "not_object", type |-> "", data |-> ""]
InitFrame(u, c) == [wire |-> "object", type |-> "init", data |-> "", user_id |-> u, conversation_id |-> c]

\* frames the forwarder may receive
ClientFrames ==
  { Frame("audio", "pcm"), Frame("text", "hi"), Frame("interrupt", ""),
    Frame("end_turn", ""), Frame("user_transcript", "me"),
    Frame("user_transcript", ""), Frame("ping", ""), NotJsonFrame, NotObjectFrame }

\* first frames of a session
FirstFrames ==
  { InitFrame(<<1>>, <<1>>), InitFrame(<<0>>, <<1>>), InitFrame(<<1>>, None),
    Frame("text", "hi"),
    NotJsonFrame, NotObjectFrame }

Malformed(f) == f.wire # "object"

(* -------------------------- upstream messages -------------------------- *)
\* One part of a modelTurn: text is the optional "text" key, audio says
\* the part has inlineData whose mimeType contains "audio".
TextPart(s) == [text |-> <<s>>, audio |-> FALSE]
AudioPart == [text |-> <<>>, audio |-> TRUE]
TextAudioPart(s) == [text |-> <<s>>, audio |-> TRUE]

ServerContent(ps, tc, int) ==
  [wire |-> "object", kind |-> "serverContent", parts |-> ps, turnComplete |-> tc, interrupted |-> int]
ToolCall == [wire |-> "object", kind |-> "toolCall", parts |-> <<>>, turnComplete |-> FALSE, interrupted |-> FALSE]
OtherMsg == [wire |-> "object", kind |-> "other", parts |-> <<>>, turnComplete |-> FALSE, interrupted |-> FALSE]
NotJsonMsg == [wire |-> "not_json", kind |-> "", parts |-> <<>>, turnComplete |-> FALSE, interrupted |-> FALSE]

UpstreamMsgs ==
  { ServerContent(<<TextPart("Hello")>>, FALSE, FALSE),
    ServerContent(<<TextPart(" there"), AudioPart>>, TRUE, FALSE),
    ServerContent(<<TextAudioPart("")>>, FALSE, FALSE),
    ServerContent(<<>>, TRUE, FALSE),
    ServerContent(<<>>, FALSE, TRUE),
    ServerContent(<<TextPart("Hello"), TextPart(" there")>>, TRUE, TRUE),
    ToolCall, OtherMsg, NotJsonMsg }

(* ------------------------------- state --------------------------------- *)
VARIABLES
  api_key,          \* settings.gemini_api_key is set
  sm_pc,            \* position of voice_stream
  user_id,          \* voice_stream's user_id
  conversation_id,  \* voice_stream's conversation_id
  gemini_ws,        \* "none" (gemini_ws is None), "open", "closed"
  dialed,           \* number of websockets.connect calls
  setup_reply,      \* "none", "ack" (setupComplete), "other"
  client_ws,        \* "open", "closed" (websocket.close() was called)
  transcripts,      \* the shared transcripts list
  current_response, \* forward_gemini_to_client's current_response
  c2g_pc,           \* forward_client_to_gemini: "off","recv","send","done","cancelled"
  g2c_pc,           \* forward_gemini_to_client: the same
  g2c_msg,          \* the upstream message being handled (a sequence of 0 or 1)
  g2c_pos,          \* the stage of g2c_msg at which handling resumes
  gemini_out,       \* messages given to gemini_ws.send, in call order
  client_out,       \* frames given to websocket.send_json, in call order
  c2g_received,     \* history: frames receive_text returned to the forwarder
  g2c_received,     \* history: messages the upstream iterator yielded
  cr_src,           \* history: for each element of current_response, where it came from
  finalized,        \* history: the finalizations, in the order they happened
  sink_calls,       \* calls of save_voice_session_to_rag
  sink_result,      \* "none", "ok", "failed": how the last sink call ended
  first_frame,      \* history: the frame voice_stream read as the init frame (0 or 1)
  c2g_exit,         \* history: how forward_client_to_gemini ended
  g2c_exit          \* history: how forward_gemini_to_client ended

vars ==
  << api_key, sm_pc, user_id, conversation_id, gemini_ws, dialed, setup_reply,
     client_ws, transcripts, current_response, c2g_pc, g2c_pc, g2c_msg, g2c_pos,
     gemini_out, client_out, c2g_received, g2c_received, cr_src, finalized,
     sink_calls, sink_result, first_frame, c2g_exit, g2c_exit >>

smVars == << user_id, conversation_id, gemini_ws, dialed, setup_reply, client_ws, first_frame >>
c2gVars == << c2g_pc, gemini_out, c2g_received, c2g_exit >>
g2cVars == << g2c_pc, g2c_msg, g2c_pos, current_response, g2c_received, cr_src, g2c_exit >>
sinkVars == << sink_calls, sink_result >>

Init ==
  /\ api_key \in BOOLEAN
  /\ sm_pc = "start"
  /\ user_id = None
  /\ conversation_id = None
  /\ gemini_ws = "none"
  /\ dialed = 0
  /\ setup_reply = "none"
  /\ client_ws = "open"
  /\ transcripts = <<>>
  /\ current_response = <<>>
  /\ c2g_pc = "off"
  /\ g2c_pc = "off"
  /\ g2c_msg = <<>>
  /\ g2c_pos = 0
  /\ gemini_out = <<>>
  /\ client_out = <<>>
  /\ c2g_received = <<>>
  /\ g2c_received = <<>>
  /\ cr_src = <<>>
  /\ finalized = <<>>
  /\ sink_calls = <<>>
  /\ sink_result = "none"
  /\ first_frame = <<>>
  /\ c2g_exit = "none"
  /\ g2c_exit = "none"


(* ------------------------- messages and frames sent -------------------- *)
SetupMessage == [kind |-> "setup", payload |-> <<>>, turnComplete |-> FALSE]
ErrorFrame == [type |-> "error", data |-> "error"]
StatusFrame == [type |-> "status", data |-> "Connected to voice AI"]

\* the handler's except clauses that send an `error` frame, then finally
RaiseWithErrorFrame ==
  /\ client_out' = Append(client_out, ErrorFrame)
  /\ sm_pc' = "finally"

\* asyncio.create_task for both forwarders, then await asyncio.wait
StartForwarding ==
  /\ c2g_pc' = "recv"
  /\ g2c_pc' = "recv"
  /\ sm_pc' = "forwarding"

(* ------------------------------ voice_stream --------------------------- *)
\* SM_ConfigError with the `return` lost: the handler goes on to the init frame
SM_ConfigError_FallThrough ==
  /\ sm_pc = "start"
  /\ ~api_key
  /\ client_out' = Append(client_out, ErrorFrame)
  /\ client_ws' = "closed"
  /\ sm_pc' = "init"
  /\ UNCHANGED << api_key, user_id, conversation_id, first_frame, gemini_ws, dialed, setup_reply,
                  transcripts, c2gVars, g2cVars, finalized, sinkVars >>

\* no API key: one error frame, close the client socket, return
SM_ConfigError ==
  /\ sm_pc = "start"
  /\ ~api_key
  /\ client_out' = Append(client_out, ErrorFrame)
  /\ client_ws' = "closed"
  /\ sm_pc' = "closed"
  /\ UNCHANGED << api_key, user_id, conversation_id, first_frame, gemini_ws, dialed, setup_reply,
                  transcripts, c2gVars, g2cVars, finalized, sinkVars >>

\* API key present: await the first client frame
SM_Start ==
  /\ sm_pc = "start"
  /\ api_key
  /\ sm_pc' = "init"
  /\ UNCHANGED << api_key, smVars, transcripts, c2gVars, g2cVars, client_out,
                  finalized, sinkVars >>

\* SM_Init treating the first frame as content too: its text is recorded
SM_Init_RecordFirst ==
  /\ sm_pc = "init"
  /\ \E f \in FirstFrames :
       /\ first_frame' = <<f>>
       /\ IF Malformed(f)
          THEN /\ RaiseWithErrorFrame
               /\ UNCHANGED << user_id, conversation_id, dialed, transcripts >>
          ELSE /\ IF f.type = "init"
                  THEN user_id' = f.user_id /\ conversation_id' = f.conversation_id
                  ELSE UNCHANGED << user_id, conversation_id >>
               /\ transcripts' = IF f.type = "text"
                                 THEN Append(transcripts, [role |-> "user", content |-> f.data])
                                 ELSE transcripts
               /\ dialed' = dialed + 1
               /\ sm_pc' = "connect"
               /\ UNCHANGED client_out
  /\ UNCHANGED << api_key, gemini_ws, setup_reply, client_ws, c2gVars,
                  g2cVars, finalized, sinkVars >>

\* the first frame arrives: parse it, take the identifiers of an init frame,
\* dial upstream
SM_Init ==
  /\ sm_pc = "init"
  /\ \E f \in FirstFrames :
       /\ first_frame' = <<f>>
       /\ IF Malformed(f)
          THEN /\ RaiseWithErrorFrame
               /\ UNCHANGED << user_id, conversation_id, dialed >>
          ELSE /\ IF f.type = "init"
                  THEN user_id' = f.user_id /\ conversation_id' = f.conversation_id
                  ELSE UNCHANGED << user_id, conversation_id >>
               /\ dialed' = dialed + 1
               /\ sm_pc' = "connect"
               /\ UNCHANGED client_out
  /\ UNCHANGED << api_key, gemini_ws, setup_reply, client_ws, transcripts, c2gVars,
                  g2cVars, finalized, sinkVars >>

\* the client goes away before its first frame: WebSocketDisconnect
SM_InitDisconnect ==
  /\ sm_pc = "init"
  /\ sm_pc' = "finally"
  /\ UNCHANGED << api_key, smVars, transcripts, c2gVars, g2cVars, client_out,
                  finalized, sinkVars >>

\* websockets.connect returns: send the setup message
SM_ConnectOk ==
  /\ sm_pc = "connect"
  /\ gemini_ws' = "open"
  /\ gemini_out' = Append(gemini_out, SetupMessage)
  /\ sm_pc' = "setup_send"
  /\ UNCHANGED << api_key, user_id, conversation_id, first_frame, dialed, setup_reply, client_ws,
                  transcripts, c2g_pc, c2g_received, c2g_exit, g2cVars, client_out,
                  finalized, sinkVars >>

\* websockets.connect raises
SM_ConnectFail ==
  /\ sm_pc = "connect"
  /\ RaiseWithErrorFrame
  /\ UNCHANGED << api_key, smVars, transcripts, c2gVars, g2cVars, finalized, sinkVars >>

\* the setup message is out: await upstream's reply
SM_SetupSendOk ==
  /\ sm_pc = "setup_send"
  /\ sm_pc' = "setup_recv"
  /\ UNCHANGED << api_key, smVars, transcripts, c2gVars, g2cVars, client_out,
                  finalized, sinkVars >>

\* sending the setup message raises
SM_SetupSendFail ==
  /\ sm_pc = "setup_send"
  /\ RaiseWithErrorFrame
  /\ UNCHANGED << api_key, smVars, transcripts, c2gVars, g2cVars, finalized, sinkVars >>

\* SM_SetupAck creating the forwarder tasks before the status frame is sent
SM_SetupAck_TasksFirst ==
  /\ sm_pc = "setup_recv"
  /\ setup_reply' = "ack"
  /\ client_out' = Append(client_out, StatusFrame)
  /\ StartForwarding
  /\ UNCHANGED << api_key, user_id, conversation_id, first_frame, gemini_ws, dialed, client_ws,
                  transcripts, gemini_out, c2g_received, c2g_exit, g2c_msg, g2c_pos,
                  current_response, g2c_received, cr_src, g2c_exit, finalized, sinkVars >>

\* upstream's reply carries setupComplete: send the status frame
SM_SetupAck ==
  /\ sm_pc = "setup_recv"
  /\ setup_reply' = "ack"
  /\ client_out' = Append(client_out, StatusFrame)
  /\ sm_pc' = "status_send"
  /\ UNCHANGED << api_key, user_id, conversation_id, first_frame, gemini_ws, dialed, client_ws,
                  transcripts, c2gVars, g2cVars, finalized, sinkVars >>

\* upstream's reply is a JSON object without setupComplete: a warning is
\* logged and the handler goes on to start the forwarders
SM_SetupOther ==
  /\ sm_pc = "setup_recv"
  /\ setup_reply' = "other"
  /\ StartForwarding
  /\ UNCHANGED << api_key, user_id, conversation_id, first_frame, gemini_ws, dialed, client_ws,
                  transcripts, gemini_out, c2g_received, c2g_exit, g2c_msg, g2c_pos,
                  current_response, g2c_received, cr_src, g2c_exit, client_out,
                  finalized, sinkVars >>

\* recv raises (upstream closed the connection) or the reply is no JSON
SM_SetupRecvFail ==
  /\ sm_pc = "setup_recv"
  /\ RaiseWithErrorFrame
  /\ UNCHANGED << api_key, smVars, transcripts, c2gVars, g2cVars, finalized, sinkVars >>

\* the status frame is out: start the forwarders
SM_StatusSendOk ==
  /\ sm_pc = "status_send"
  /\ StartForwarding
  /\ UNCHANGED << api_key, smVars, transcripts, gemini_out, c2g_received, c2g_exit,
                  g2c_msg, g2c_pos, current_response, g2c_received, cr_src, g2c_exit, client_out,
                  finalized, sinkVars >>

\* sending the status frame raises: WebSocketDisconnect (no error frame) or
\* another exception (error frame)
SM_StatusSendFail ==
  /\ sm_pc = "status_send"
  /\ \/ sm_pc' = "finally" /\ UNCHANGED client_out
     \/ RaiseWithErrorFrame
  /\ UNCHANGED << api_key, smVars, transcripts, c2gVars, g2cVars, finalized, sinkVars >>

\* Cancelled letting a pending send finish: only a forwarder waiting to
\* receive is stopped
Cancelled_AfterSend(pc) == IF pc = "recv" THEN "cancelled" ELSE pc

\* Cancelled with task.cancel() forgotten: the pending forwarder runs on
Cancelled_Not(pc) == pc

\* the state of a forwarder after task.cancel(): a task that is still
\* running gets CancelledError at its await and ends
Cancelled(pc) == IF pc \in {"recv", "send"} THEN "cancelled" ELSE pc

\* SM_Cancel with asyncio.wait(..., return_when=ALL_COMPLETED): the handler
\* waits until both forwarders have ended by themselves
SM_Cancel_WaitAll ==
  /\ sm_pc = "forwarding"
  /\ c2g_pc = "done" /\ g2c_pc = "done"
  /\ sm_pc' = "finally"
  /\ UNCHANGED << api_key, smVars, transcripts, c2gVars, g2cVars, client_out,
                  finalized, sinkVars >>

\* asyncio.wait returns because a forwarder is done: cancel the pending one
\* (task.cancel() is not awaited)
SM_Cancel ==
  /\ sm_pc = "forwarding"
  /\ c2g_pc = "done" \/ g2c_pc = "done"
  /\ c2g_pc' = Cancelled(c2g_pc)
  /\ g2c_pc' = Cancelled(g2c_pc)
  /\ sm_pc' = "finally"
  /\ UNCHANGED << api_key, smVars, transcripts, gemini_out, c2g_received, c2g_exit,
                  g2c_msg, g2c_pos, current_response, g2c_received, cr_src, g2c_exit, client_out,
                  finalized, sinkVars >>

\* save_voice_session_to_rag: nothing to do for an empty list; else the
\* entries are committed one by one, which succeeds or raises
save_voice_session_to_rag(ts) ==
  IF ts = <<>> THEN {"ok"} ELSE {"ok", "failed"}

\* close_gemini with the close in `finally` forgotten
close_gemini_Leak(ws) == ws

\* `if gemini_ws: await gemini_ws.close()`
close_gemini(ws) == IF ws = "open" THEN "closed" ELSE ws

\* on_sink_failure telling the client about the failure
on_sink_failure_Surface(res) == IF res = "failed" THEN << ErrorFrame >> ELSE <<>>

\* the frames the handler sends for the outcome of the sink call: none, the
\* except clause around the call only logs
on_sink_failure(res) == <<>>

\* SM_Finally with both emptiness guards lost (`and transcripts` here and
\* `if not transcripts: return` in the sink): the sink works on any list
SM_Finally_SaveAlways ==
  /\ sm_pc = "finally"
  /\ gemini_ws' = close_gemini(gemini_ws)
  /\ IF Truthy(user_id) /\ Truthy(conversation_id)
     THEN /\ sink_calls' = Append(sink_calls, [user_id |-> user_id,
                                  conversation_id |-> conversation_id,
                                  transcripts |-> transcripts])
          /\ sink_result' \in {"ok", "failed"}
          /\ client_out' = client_out \o on_sink_failure(sink_result')
     ELSE UNCHANGED << sinkVars, client_out >>
  /\ sm_pc' = "closed"
  /\ UNCHANGED << api_key, user_id, conversation_id, first_frame, dialed, setup_reply, client_ws,
                  transcripts, c2gVars, g2cVars, finalized >>

\* finally: close the upstream connection if there is one, then hand the
\* transcripts to the sink when there are identifiers and entries; an
\* exception of the sink is logged
SM_Finally ==
  /\ sm_pc = "finally"
  /\ gemini_ws' = close_gemini(gemini_ws)
  /\ IF Truthy(user_id) /\ Truthy(conversation_id) /\ transcripts # <<>>
     THEN /\ sink_calls' = Append(sink_calls, [user_id |-> user_id,
                                  conversation_id |-> conversation_id,
                                  transcripts |-> transcripts])
          /\ sink_result' \in save_voice_session_to_rag(transcripts)
          /\ client_out' = client_out \o on_sink_failure(sink_result')
     ELSE UNCHANGED << sinkVars, client_out >>
  /\ sm_pc' = "closed"
  /\ UNCHANGED << api_key, user_id, conversation_id, first_frame, dialed, setup_reply, client_ws,
                  transcripts, c2gVars, g2cVars, finalized >>

voice_stream ==
  \/ SM_ConfigError
  \/ SM_Start
  \/ SM_Init
  \/ SM_InitDisconnect
  \/ SM_ConnectOk
  \/ SM_ConnectFail
  \/ SM_SetupSendOk
  \/ SM_SetupSendFail
  \/ SM_SetupAck
  \/ SM_SetupOther
  \/ SM_SetupRecvFail
  \/ SM_StatusSendOk
  \/ SM_StatusSendFail
  \/ SM_Cancel
  \/ SM_Finally

(* ------------------------ forward_client_to_gemini --------------------- *)
UpstreamMsg(k, p, tc) == [kind |-> k, payload |-> p, turnComplete |-> tc]

\* gemini_message with the `interrupt` branch lost: no barge-in is sent
gemini_message_NoBargeIn(f) ==
  IF f.type = "audio" THEN << UpstreamMsg("realtimeInput", <<f.data>>, FALSE) >>
  ELSE IF f.type = "text" THEN << UpstreamMsg("clientContent", <<f.data>>, TRUE) >>
  ELSE IF f.type = "end_turn" THEN << UpstreamMsg("clientContent", <<>>, TRUE) >>
  ELSE <<>>

\* gemini_message with `turnComplete` of a text frame's message left False
gemini_message_TextOpenTurn(f) ==
  IF f.type = "audio" THEN << UpstreamMsg("realtimeInput", <<f.data>>, FALSE) >>
  ELSE IF f.type = "text" THEN << UpstreamMsg("clientContent", <<f.data>>, FALSE) >>
  ELSE IF f.type = "interrupt" THEN << UpstreamMsg("realtimeInput", <<>>, FALSE) >>
  ELSE IF f.type = "end_turn" THEN << UpstreamMsg("clientContent", <<>>, TRUE) >>
  ELSE <<>>

\* gemini_message with the `interrupt` branch sending the end-of-turn message
gemini_message_InterruptEndsTurn(f) ==
  IF f.type = "audio" THEN << UpstreamMsg("realtimeInput", <<f.data>>, FALSE) >>
  ELSE IF f.type = "text" THEN << UpstreamMsg("clientContent", <<f.data>>, TRUE) >>
  ELSE IF f.type = "interrupt" THEN << UpstreamMsg("clientContent", <<>>, TRUE) >>
  ELSE IF f.type = "end_turn" THEN << UpstreamMsg("clientContent", <<>>, TRUE) >>
  ELSE <<>>

\* the message the forwarder gives to gemini_ws.send for a parsed frame:
\* a sequence of one message, or of none for a frame that is not forwarded
gemini_message(f) ==
  IF f.type = "audio" THEN << UpstreamMsg("realtimeInput", <<f.data>>, FALSE) >>
  ELSE IF f.type = "text" THEN << UpstreamMsg("clientContent", <<f.data>>, TRUE) >>
  ELSE IF f.type = "interrupt" THEN << UpstreamMsg("realtimeInput", <<>>, FALSE) >>
  ELSE IF f.type = "end_turn" THEN << UpstreamMsg("clientContent", <<>>, TRUE) >>
  ELSE <<>>

\* user_entry with the append of the text branch lost
user_entry_NoText(f) ==
  IF f.type = "user_transcript" /\ f.data # ""
  THEN << [role |-> "user", content |-> f.data] >>
  ELSE <<>>

\* user_entry without the `if text_content:` of the user_transcript branch
user_entry_KeepEmpty(f) ==
  IF f.type \in {"text", "user_transcript"}
  THEN << [role |-> "user", content |-> f.data] >>
  ELSE <<>>

\* the entry the forwarder appends to transcripts for a parsed frame: a
\* sequence of one entry or of none (a user_transcript frame with empty
\* text appends nothing)
user_entry(f) ==
  IF f.type = "text" THEN << [role |-> "user", content |-> f.data] >>
  ELSE IF f.type = "user_transcript" /\ f.data # ""
       THEN << [role |-> "user", content |-> f.data] >>
  ELSE <<>>

\* history record of a finalization
Finalization(entry, src, by) ==
  [role |-> entry.role, content |-> entry.content, src |-> src, by |-> by]

\* receive_text returns a frame: parse it and dispatch on its type, up to
\* the await of gemini_ws.send; json.loads or message.get raising ends the
\* loop through the except clause around it
C2G_Receive ==
  /\ c2g_pc = "recv"
  /\ Len(c2g_received) + Len(g2c_received) < MaxFrames
  /\ \E f \in ClientFrames :
       /\ c2g_received' = Append(c2g_received, f)
       /\ IF Malformed(f)
          THEN /\ c2g_pc' = "done"
               /\ c2g_exit' = "parse_error"
               /\ UNCHANGED << transcripts, finalized, gemini_out >>
          ELSE /\ transcripts' = transcripts \o user_entry(f)
               /\ finalized' = IF user_entry(f) = <<>> THEN finalized
                               ELSE Append(finalized, Finalization(user_entry(f)[1], <<>>, f.type))
               /\ gemini_out' = gemini_out \o gemini_message(f)
               /\ c2g_pc' = IF gemini_message(f) = <<>> THEN "recv" ELSE "send"
               /\ UNCHANGED c2g_exit
  /\ UNCHANGED << api_key, sm_pc, smVars, g2cVars, client_out, sinkVars >>

\* gemini_ws.send returns: back to receive_text
C2G_SendOk ==
  /\ c2g_pc = "send"
  /\ c2g_pc' = "recv"
  /\ UNCHANGED << api_key, sm_pc, smVars, transcripts, gemini_out, c2g_received, c2g_exit,
                  g2cVars, client_out, finalized, sinkVars >>

\* C2G_SendFail with the try/except inside the loop: the error is logged and
\* the forwarder goes back to receive_text
C2G_SendFail_Continue ==
  /\ c2g_pc = "send"
  /\ c2g_pc' = "recv"
  /\ c2g_exit' = "send_error"
  /\ UNCHANGED << api_key, sm_pc, smVars, transcripts, gemini_out, c2g_received,
                  g2cVars, client_out, finalized, sinkVars >>

\* gemini_ws.send raises: the loop ends
C2G_SendFail ==
  /\ c2g_pc = "send"
  /\ c2g_pc' = "done"
  /\ c2g_exit' = "send_error"
  /\ UNCHANGED << api_key, sm_pc, smVars, transcripts, gemini_out, c2g_received,
                  g2cVars, client_out, finalized, sinkVars >>

\* receive_text raises WebSocketDisconnect: the loop ends
C2G_Disconnect ==
  /\ c2g_pc = "recv"
  /\ c2g_pc' = "done"
  /\ c2g_exit' = "disconnect"
  /\ UNCHANGED << api_key, sm_pc, smVars, transcripts, gemini_out, c2g_received,
                  g2cVars, client_out, finalized, sinkVars >>

forward_client_to_gemini ==
  \/ C2G_Receive
  \/ C2G_SendOk
  \/ C2G_SendFail
  \/ C2G_Disconnect

(* ------------------------ forward_gemini_to_client --------------------- *)
\* The handling of one upstream message is a fixed sequence of stages, each
\* of which either does nothing or ends in one awaited send_json: for part
\* i (1..n) the text stage 2(i-1) and the audio stage 2(i-1)+1, then the
\* turnComplete stage 2n and the interrupted stage 2n+1.  A toolCall
\* message has the single stage 0.
Stages(m) ==
  IF m.kind = "serverContent" THEN 2 * Len(m.parts) + 2
  ELSE IF m.kind = "toolCall" THEN 1
  ELSE 0

StageKind(m, k) ==
  IF m.kind = "toolCall" THEN "tool_call"
  ELSE IF k = 2 * Len(m.parts) THEN "turn_complete"
  ELSE IF k = 2 * Len(m.parts) + 1 THEN "interrupted"
  ELSE IF k % 2 = 0 THEN "text"
  ELSE "audio"

\* StagePart iterating over reversed(parts)
StagePart_Reversed(m, k) == m.parts[Len(m.parts) - (k \div 2)]

StagePart(m, k) == m.parts[(k \div 2) + 1]

\* the condition the code tests at stage k
StageFires(m, k) ==
  LET kind == StageKind(m, k) IN
    IF kind = "tool_call" THEN TRUE
    ELSE IF kind = "turn_complete" THEN m.turnComplete
    ELSE IF kind = "interrupted" THEN m.interrupted
    ELSE IF kind = "text" THEN StagePart(m, k).text # <<>>
    ELSE StagePart(m, k).audio

\* the first stage from k on that sends, or Stages(m) when there is none
RECURSIVE NextStage(_, _)
NextStage(m, k) ==
  IF k >= Stages(m) THEN Stages(m)
  ELSE IF StageFires(m, k) THEN k
  ELSE NextStage(m, k + 1)

\* StageFrame with the text branch only buffering: the frame sent for a
\* text part carries no text
StageFrame_TextHeld(m, k) ==
  LET kind == StageKind(m, k) IN
    IF kind = "text" THEN [type |-> "text", data |-> ""]
    ELSE IF kind = "audio" THEN [type |-> "audio", data |-> "pcm"]
    ELSE IF kind = "tool_call" THEN [type |-> "tool_call", data |-> "toolCall"]
    ELSE [type |-> kind, data |-> "true"]

\* the frame given to client_ws.send_json at stage k
StageFrame(m, k) ==
  LET kind == StageKind(m, k) IN
    IF kind = "text" THEN [type |-> "text", data |-> StagePart(m, k).text[1]]
    ELSE IF kind = "audio" THEN [type |-> "audio", data |-> "pcm"]
    ELSE IF kind = "tool_call" THEN [type |-> "tool_call", data |-> "toolCall"]
    ELSE [type |-> kind, data |-> "true"]

\* buffered with the audio branch appending its payload as well
buffered_Audio(m, k) ==
  IF StageKind(m, k) = "text" THEN << StagePart(m, k).text[1] >>
  ELSE IF StageKind(m, k) = "audio" THEN << "pcm" >>
  ELSE <<>>

\* what stage k appends to current_response: the text of a part that has
\* text, nothing in the audio, tool-call and signal branches
buffered(m, k) ==
  IF StageKind(m, k) = "text" THEN << StagePart(m, k).text[1] >> ELSE <<>>

\* finalize_transcripts with insert(0, ...) in place of append
finalize_transcripts_Prepend(tr, cr) ==
  IF cr # <<>> THEN << [role |-> "assistant", content |-> Join(cr)] >> \o tr ELSE tr

\* finalize_transcripts keeping only the last delta in place of the join
finalize_transcripts_LastDelta(tr, cr) ==
  IF cr # <<>> THEN Append(tr, [role |-> "assistant", content |-> cr[Len(cr)]]) ELSE tr

\* `if current_response:` append {"role": "assistant", "content": "".join(...)}
finalize_transcripts(tr, cr) ==
  IF cr # <<>> THEN Append(tr, [role |-> "assistant", content |-> Join(cr)]) ELSE tr

\* finalize_buffer with the reset of current_response forgotten
finalize_buffer_Keep(cr) == cr

\* `current_response = []` inside the same `if`
finalize_buffer(cr) == <<>>

\* number of `interrupt` frames the client->upstream forwarder has handled
RECURSIVE Interrupts(_)
Interrupts(fs) ==
  IF fs = <<>> THEN 0
  ELSE (IF Head(fs).wire = "object" /\ Head(fs).type = "interrupt" THEN 1 ELSE 0)
       + Interrupts(Tail(fs))

\* run the handling of message m (the idx-th received) from stage k up to
\* the next awaited send_json, or to the end of the message
G2C_Run(m, idx, k) ==
  LET s == NextStage(m, k)
      kind == StageKind(m, s)
  IN IF s = Stages(m)
     THEN /\ g2c_pc' = "recv"
          /\ g2c_msg' = <<>>
          /\ g2c_pos' = 0
          /\ UNCHANGED << current_response, cr_src, transcripts, finalized, client_out >>
     ELSE /\ g2c_pc' = "send"
          /\ g2c_msg' = <<m>>
          /\ g2c_pos' = s + 1
          /\ client_out' = Append(client_out, StageFrame(m, s))
          /\ IF buffered(m, s) # <<>>
             THEN /\ current_response' = current_response \o buffered(m, s)
                  /\ cr_src' = Append(cr_src, [msg |-> idx, part |-> (s \div 2) + 1,
                                               intr |-> Interrupts(c2g_received)])
                  /\ UNCHANGED << transcripts, finalized >>
             ELSE IF kind \in {"turn_complete", "interrupted"}
             THEN /\ transcripts' = finalize_transcripts(transcripts, current_response)
                  /\ current_response' = IF current_response # <<>>
                                         THEN finalize_buffer(current_response)
                                         ELSE current_response
                  /\ finalized' = IF current_response # <<>>
                                  THEN Append(finalized,
                                         Finalization([role |-> "assistant",
                                                       content |-> Join(current_response)],
                                                      cr_src, kind))
                                  ELSE finalized
                  /\ cr_src' = IF current_response' = <<>> THEN <<>> ELSE cr_src
             ELSE UNCHANGED << current_response, cr_src, transcripts, finalized >>

\* the upstream iterator yields a message: parse and handle it up to the
\* first send; json.loads raising ends the loop
G2C_Receive ==
  /\ g2c_pc = "recv"
  /\ Len(c2g_received) + Len(g2c_received) < MaxFrames
  /\ \E m \in UpstreamMsgs :
       /\ g2c_received' = Append(g2c_received, m)
       /\ IF m.wire # "object"
          THEN /\ g2c_pc' = "done"
               /\ g2c_exit' = "parse_error"
               /\ UNCHANGED << g2c_msg, g2c_pos, current_response, cr_src, transcripts,
                               finalized, client_out >>
          ELSE G2C_Run(m, Len(g2c_received) + 1, 0) /\ UNCHANGED g2c_exit
  /\ UNCHANGED << api_key, sm_pc, smVars, c2gVars, sinkVars >>

\* send_json returns: go on with the message
G2C_SendOk ==
  /\ g2c_pc = "send"
  /\ G2C_Run(g2c_msg[1], Len(g2c_received), g2c_pos)
  /\ UNCHANGED << api_key, sm_pc, smVars, c2gVars, g2c_received, g2c_exit, sinkVars >>

\* G2C_SendFail sending the frame again when send_json raises
G2C_SendFail_Retry ==
  /\ g2c_pc = "send"
  /\ client_out' = Append(client_out, Last(client_out))
  /\ g2c_exit' = "send_error"
  /\ UNCHANGED << api_key, sm_pc, smVars, c2gVars, g2c_pc, g2c_msg, g2c_pos,
                  current_response, g2c_received, cr_src, transcripts, finalized,
                  sinkVars >>

\* send_json raises: the loop ends
G2C_SendFail ==
  /\ g2c_pc = "send"
  /\ g2c_pc' = "done"
  /\ g2c_exit' = "send_error"
  /\ UNCHANGED << api_key, sm_pc, smVars, c2gVars, g2c_msg, g2c_pos, current_response,
                  g2c_received, cr_src, transcripts, client_out, finalized, sinkVars >>

\* the upstream connection closes: the iteration ends
G2C_Closed ==
  /\ g2c_pc = "recv"
  /\ g2c_pc' = "done"
  /\ g2c_exit' = "closed"
  /\ UNCHANGED << api_key, sm_pc, smVars, c2gVars, g2c_msg, g2c_pos, current_response,
                  g2c_received, cr_src, transcripts, client_out, finalized, sinkVars >>

forward_gemini_to_client ==
  \/ G2C_Receive
  \/ G2C_SendOk
  \/ G2C_SendFail
  \/ G2C_Closed

(* ---------------------------- specification ---------------------------- *)
Next ==
  \/ voice_stream
  \/ forward_client_to_gemini
  \/ forward_gemini_to_client

Spec == Init /\ [][Next]_vars

\* the handler's own steps after the forwarding phase are taken: asyncio.wait
\* returns once a task is done, and the finally block runs to its end.
\* Nothing is assumed of the forwarders' I/O.
FairSpec == Spec /\ WF_vars(SM_Cancel) /\ WF_vars(SM_Finally)

(* ------------------------------- claims -------------------------------- *)
KnownTypes == {"audio", "text", "interrupt", "end_turn", "user_transcript"}

\* frames for which the forwarder is to send one upstream message
Forwardable(f) == f.wire = "object" /\ f.type \in {"audio", "text", "interrupt", "end_turn"}

\* upstream message m is the translation of frame f
Carries(m, f) ==
  IF f.type = "audio" THEN m.kind = "realtimeInput" /\ m.payload = <<f.data>>
  ELSE IF f.type = "text" THEN m.kind = "clientContent" /\ m.payload = <<f.data>> /\ m.turnComplete
  ELSE IF f.type = "interrupt" THEN m.kind = "realtimeInput" /\ m.payload = <<>>
  ELSE m.kind = "clientContent" /\ m.payload = <<>> /\ m.turnComplete

\* the messages the forwarder gave to gemini_ws.send (all after the setup message)
ForwardedUpstream == SubSeq(gemini_out, 2, Len(gemini_out))

\* C1: the upstream messages of the client->upstream forwarder are, one for
\* one and in receipt order, the translations of the audio, text, interrupt
\* and end_turn frames it received: nothing reordered, coalesced, dropped or
\* duplicated.
C1_ForwardOrder ==
  LET fw == SelectSeq(c2g_received, Forwardable)
  IN /\ Len(ForwardedUpstream) = Len(fw)
     /\ \A i \in 1..Len(fw) : Carries(ForwardedUpstream[i], fw[i])

\* two frames of different forwarded types were received and forwarded
C1_Witness ==
  LET fw == SelectSeq(c2g_received, Forwardable)
  IN /\ Len(fw) = 2
     /\ fw[1].type = "interrupt"
     /\ fw[2].type = "text"
     /\ Len(ForwardedUpstream) = 2
     /\ c2g_pc = "recv"

\* C3: the transcript list is the finalizations in the order they happened,
\* whichever loop made them: none lost, overwritten or out of order.
C3_TranscriptOrder ==
  /\ Len(transcripts) = Len(finalized)
  /\ \A i \in 1..Len(finalized) :
       /\ transcripts[i].role = finalized[i].role
       /\ transcripts[i].content = finalized[i].content

\* an assistant turn was finalized and then, while the upstream->client
\* forwarder was still sending the frames of that message, a user turn
C3_Witness ==
  /\ Len(transcripts) = 2
  /\ transcripts[1].role = "assistant"
  /\ transcripts[2].role = "user"
  /\ g2c_pc = "send"
  /\ Last(client_out).type = "turn_complete"

\* every text delta is in at most one finalization, once
DeltasOnce ==
  \A i, j \in 1..Len(finalized) :
    \A a \in 1..Len(finalized[i].src) : \A b \in 1..Len(finalized[j].src) :
      (finalized[i].src[a].msg = finalized[j].src[b].msg
         /\ finalized[i].src[a].part = finalized[j].src[b].part)
      => (i = j /\ a = b)

\* the step issues a turn_complete or interrupted frame to the client
SignalStep ==
  /\ Len(client_out') = Len(client_out) + 1
  /\ Last(client_out').type \in {"turn_complete", "interrupted"}

\* C4: finalization is idempotent: every upstream text delta is in at most
\* one transcript entry, a step appends at most one entry, and a
\* turn-complete or interrupted signal handled while the pending buffer is
\* empty appends nothing.
C4_FinalizeOnce ==
  [][ /\ DeltasOnce'
      /\ Len(transcripts') = Len(finalized')
      /\ Len(transcripts') <= Len(transcripts) + 1
      /\ (SignalStep /\ current_response = <<>>) => transcripts' = transcripts ]_vars

\* interrupted was handled right after turnComplete of the same message,
\* which had finalized a non-empty buffer
C4_Witness ==
  /\ Len(client_out) >= 2
  /\ Last(client_out).type = "interrupted"
  /\ client_out[Len(client_out) - 1].type = "turn_complete"
  /\ finalized # <<>>
  /\ Last(finalized).by = "turn_complete"
  /\ Len(Last(finalized).src) = 2
  /\ g2c_pc = "send"
  /\ g2c_msg # <<>>
  /\ g2c_msg[1].turnComplete /\ g2c_msg[1].interrupted

\* C5: without an API key the session sends exactly one error frame and
\* ends: upstream is never dialed, no forwarder starts, nothing is appended
\* to the transcript and the sink is never called.
C5_ConfigError ==
  ~api_key =>
    /\ sm_pc \in {"start", "closed"}
    /\ dialed = 0
    /\ gemini_ws = "none"
    /\ gemini_out = <<>>
    /\ c2g_pc = "off" /\ g2c_pc = "off"
    /\ transcripts = <<>>
    /\ sink_calls = <<>>
    /\ client_out = IF sm_pc = "closed" THEN <<ErrorFrame>> ELSE <<>>

\* the session without an API key has ended
C5_Witness == ~api_key /\ sm_pc = "closed" /\ client_out = <<ErrorFrame>>

\* C2: a client interrupt taken while assistant text is pending separates
\* the turns: no transcript entry holds text deltas received before the
\* interrupt together with text deltas received after it.
C2_InterruptSeparates ==
  \A i \in 1..Len(finalized) :
    \A a, b \in 1..Len(finalized[i].src) :
      finalized[i].src[a].intr = finalized[i].src[b].intr

\* C6: when upstream's reply to the setup message is no setup
\* acknowledgement, no forwarder is ever started and the session ends with
\* an error frame sent to the client.
C6_HandshakeRejected ==
  setup_reply = "other" =>
    /\ c2g_pc = "off" /\ g2c_pc = "off"
    /\ sm_pc = "closed" => \E i \in 1..Len(client_out) : client_out[i] = ErrorFrame

\* a frame that is to be skipped: malformed, or of unknown type
Skipped(f) == Malformed(f) \/ f.type \notin KnownTypes

\* C7: a malformed frame or a frame of unknown type is skipped: having
\* received it, the forwarder is back at its receive and has sent and
\* recorded nothing for it.
C7_MalformedSkipped ==
  [][ (Len(c2g_received') = Len(c2g_received) + 1 /\ Skipped(Last(c2g_received')))
        => /\ c2g_pc' = "recv"
           /\ gemini_out' = gemini_out
           /\ transcripts' = transcripts ]_vars

\* the stages of the j-th received message that have been handled
HandledStages(j) ==
  IF j = Len(g2c_received) /\ g2c_msg # <<>> THEN g2c_pos
  ELSE Stages(g2c_received[j])

\* the text deltas and turn signals of message m in stages k..upto-1, in order
RECURSIVE MsgSignals(_, _, _)
MsgSignals(m, k, upto) ==
  IF k >= upto THEN <<>>
  ELSE (IF StageFires(m, k) /\ StageKind(m, k) \in {"text", "turn_complete", "interrupted"}
        THEN << [kind |-> StageKind(m, k),
                 text |-> IF StageKind(m, k) = "text" THEN StagePart(m, k).text[1] ELSE ""] >>
        ELSE <<>>)
       \o MsgSignals(m, k + 1, upto)

\* the text deltas and turn signals handled so far, from message j on
RECURSIVE HandledSignals(_)
HandledSignals(j) ==
  IF j > Len(g2c_received) THEN <<>>
  ELSE MsgSignals(g2c_received[j], 0, HandledStages(j)) \o HandledSignals(j + 1)

\* what the claim prescribes for a sequence of deltas and signals: the
\* deltas since the last clearing are pending; a signal that finds deltas
\* pending turns their concatenation into an entry and clears them
RECURSIVE Prescribed(_, _, _)
Prescribed(sig, pending, entries) ==
  IF sig = <<>> THEN [pending |-> pending, entries |-> entries]
  ELSE IF Head(sig).kind = "text"
       THEN Prescribed(Tail(sig), Append(pending, Head(sig).text), entries)
  ELSE IF pending # <<>>
       THEN Prescribed(Tail(sig), <<>>, Append(entries, Join(pending)))
  ELSE Prescribed(Tail(sig), pending, entries)

IsAssistant(e) == e.role = "assistant"
IsTurnComplete(x) == x.kind = "turn_complete"
IsTurnCompleteFrame(x) == x.type = "turn_complete"

\* C8: the assistant entries of the transcript are, in order, the
\* concatenations of the text deltas received between clearings of the
\* pending buffer; the buffer holds exactly the deltas received since the
\* last clearing (none right after a turn-complete); and every
\* turn-complete signal handled has put one turn_complete frame to the client.
C8_TurnComplete ==
  LET sig == HandledSignals(1)
      want == Prescribed(sig, <<>>, <<>>)
      got == SelectSeq(transcripts, IsAssistant)
  IN /\ Len(got) = Len(want.entries)
     /\ \A i \in 1..Len(got) : got[i].content = want.entries[i]
     /\ current_response = want.pending
     /\ Len(SelectSeq(client_out, IsTurnCompleteFrame)) = Len(SelectSeq(sig, IsTurnComplete))
     /\ (client_out # <<>> /\ Last(client_out).type = "turn_complete") => current_response = <<>>

\* deltas "Hello" and " there" arrived in two messages, the second with
\* turnComplete: the entry is "Hello there" and the buffer is empty
C8_Witness ==
  /\ Len(g2c_received) = 2
  /\ transcripts = << [role |-> "assistant", content |-> "Hello there"] >>
  /\ current_response = <<>>
  /\ Last(client_out).type = "turn_complete"

\* C9: an interrupted signal that finds a partial buffer appends one
\* assistant entry with the buffer's content, marked interrupted.
C9_InterruptedMarked ==
  \A i \in 1..Len(finalized) :
    (finalized[i].by = "interrupted" /\ i <= Len(transcripts))
      => /\ transcripts[i].role = "assistant"
         /\ transcripts[i].content = finalized[i].content
         /\ "interrupted" \in DOMAIN transcripts[i]

ForwardingStarted == c2g_pc # "off"
Running(pc) == pc \in {"recv", "send"}
PersistenceEnabled == Truthy(user_id) /\ Truthy(conversation_id)

\* C10 as stated: every session that started its forwarders and ended has
\* called the sink exactly once.
C10_SinkExactlyOnce ==
  (sm_pc = "closed" /\ ForwardingStarted) => Len(sink_calls) = 1

\* C10 amended: the sink is called at most once, only at teardown, when no
\* forwarder is running, with the transcript as accumulated; a session that
\* started its forwarders and ended has called it exactly when
\* user_id and conversation_id are truthy and the transcript is not empty.
C10_SinkAtTeardown ==
  /\ Len(sink_calls) <= 1
  /\ sink_calls # <<>> =>
       /\ sm_pc = "closed"
       /\ ~Running(c2g_pc) /\ ~Running(g2c_pc)
       /\ sink_calls[1].transcripts = transcripts
  /\ (sm_pc = "closed" /\ ForwardingStarted) =>
       (Len(sink_calls) = 1 <=> (PersistenceEnabled /\ transcripts # <<>>))

\* the upstream->client forwarder ended first, the other was cancelled, and
\* the sink got the two entries accumulated
C10_Witness ==
  /\ sm_pc = "closed"
  /\ g2c_pc = "done"
  /\ c2g_pc = "cancelled"
  /\ Len(sink_calls) = 1
  /\ Len(sink_calls[1].transcripts) = 2


\* the ways a forwarder ends on a transport error: send raising, the client
\* disconnecting, the upstream connection closing
TransportErrors == {"send_error", "disconnect", "closed"}
TransportFailed == c2g_exit \in TransportErrors \/ g2c_exit \in TransportErrors

\* the sink has been given every entry finalized, in order
Flushed ==
  /\ Len(sink_calls) = 1
  /\ Len(sink_calls[1].transcripts) = Len(finalized)
  /\ \A i \in 1..Len(finalized) :
       /\ sink_calls[1].transcripts[i].role = finalized[i].role
       /\ sink_calls[1].transcripts[i].content = finalized[i].content

\* C11: a transport error in a forwarder is terminal: the forwarder that met
\* it has ended and never runs again, and the session goes on to be closed
\* with no forwarder running and, when it has persistence identifiers and
\* entries were finalized, with all of them handed to the sink.
C11_TransportErrorTerminal ==
  /\ [](c2g_exit \in TransportErrors => c2g_pc = "done")
  /\ [](g2c_exit \in TransportErrors => g2c_pc = "done")
  /\ TransportFailed ~>
       (/\ sm_pc = "closed"
        /\ ~Running(c2g_pc) /\ ~Running(g2c_pc)
        /\ (PersistenceEnabled /\ finalized # <<>>) => Flushed)

\* a user entry was recorded, then send_json to the client raised; the
\* session is closed and the sink has the entry
C11_Witness ==
  /\ sm_pc = "closed"
  /\ g2c_exit = "send_error"
  /\ c2g_pc = "cancelled"
  /\ finalized # <<>>
  /\ Flushed

\* an init frame with both identifiers
FullInit(f) ==
  f.wire = "object" /\ f.type = "init" /\ f.user_id # None /\ f.conversation_id # None

\* C12: a first frame that is no init frame with both identifiers does not
\* stop the session: on reading it the handler raises no error and goes on
\* to dial upstream; persistence is disabled, so the sink is never called.
C12_NonInitProceeds ==
  /\ [][ (first_frame = <<>> /\ first_frame' # <<>> /\ ~FullInit(first_frame'[1]))
           => /\ sm_pc' = "connect"
              /\ dialed' = dialed + 1
              /\ client_out' = client_out
              /\ ~PersistenceEnabled' ]_vars
  /\ []((first_frame # <<>> /\ ~FullInit(first_frame[1])) => sink_calls = <<>>)

\* C13: the handler cancels the pending forwarder without waiting for its
\* receive or send: once a forwarder has ended the session always reaches
\* closed, whatever the other forwarder's I/O does, and past the forwarding
\* phase no forwarder is running; the cancelling step itself does no I/O.
C13_CancelNoWait ==
  /\ [](sm_pc \in {"finally", "closed"} => (~Running(c2g_pc) /\ ~Running(g2c_pc)))
  /\ [][ (sm_pc = "forwarding" /\ sm_pc' # "forwarding")
           => /\ sm_pc' = "finally"
              /\ Running(c2g_pc) => c2g_pc' = "cancelled"
              /\ Running(g2c_pc) => g2c_pc' = "cancelled"
              /\ gemini_out' = gemini_out /\ client_out' = client_out ]_vars
  /\ (c2g_pc = "done" \/ g2c_pc = "done") ~> sm_pc = "closed"

\* the client->upstream forwarder ended while the other was awaiting a
\* send_json in the middle of a message; that send was abandoned
C13_Witness ==
  /\ sm_pc = "closed"
  /\ c2g_pc = "done"
  /\ g2c_pc = "cancelled"
  /\ g2c_msg # <<>>

\* C14: no forwarder runs unless the handshake succeeded and the status
\* frame was sent: the status frame is the first frame given to the client.
C14_StatusBeforeForwarding ==
  ForwardingStarted =>
    /\ setup_reply = "ack"
    /\ client_out # <<>>
    /\ client_out[1] = StatusFrame

\* C15: the upstream connection is opened at most once and lives as long as
\* the session: it is closed by the time the session is closed, and not
\* before the teardown.
C15_UpstreamClosed ==
  /\ dialed <= 1
  /\ sm_pc = "closed" => gemini_ws # "open"
  /\ gemini_ws = "closed" => sm_pc = "closed"
  /\ gemini_ws = "open" => sm_pc \in {"setup_send", "setup_recv", "status_send",
                                      "forwarding", "finally"}

\* the handshake failed after the connection was opened (no forwarder was
\* started), and the session ended with the connection closed
C15_Witness ==
  /\ sm_pc = "closed"
  /\ gemini_ws = "closed"
  /\ ~ForwardingStarted
  /\ Last(client_out) = ErrorFrame

\* C16: a session that went through the forwarding phase and ended has
\* closed both channels, the client's as well as the upstream one.
C16_BothChannelsClosed ==
  (sm_pc = "closed" /\ ForwardingStarted) =>
    (client_ws = "closed" /\ gemini_ws = "closed")

\* C17: a failure of the sink is not surfaced: the step in which the sink
\* fails sends no frame and ends the session closed, the sink was called
\* once, and afterwards nothing is sent and the sink is not called again.
C17_SinkFailureSilent ==
  [][ /\ (sink_result # "failed" /\ sink_result' = "failed")
         => /\ client_out' = client_out
            /\ sm_pc' = "closed"
            /\ Len(sink_calls') = 1
      /\ sink_result = "failed"
         => /\ client_out' = client_out
            /\ sink_calls' = sink_calls
            /\ sm_pc' = "closed" ]_vars

\* the sink failed on a non-empty transcript; the session is closed and the
\* client was sent no error frame
C17_Witness ==
  /\ sink_result = "failed"
  /\ sm_pc = "closed"
  /\ Len(sink_calls) = 1
  /\ \A i \in 1..Len(client_out) : client_out[i] # ErrorFrame

\* the step receives a well-formed frame of type t
Receives(t) ==
  /\ Len(c2g_received') = Len(c2g_received) + 1
  /\ Last(c2g_received').wire = "object"
  /\ Last(c2g_received').type = t

\* C18: the step that receives a text frame appends its text to the
\* transcript as a user entry and gives upstream exactly one clientContent
\* message with that text and turnComplete set.
C18_TextFrame ==
  [][ Receives("text")
        => /\ transcripts' = Append(transcripts, [role |-> "user",
                                                   content |-> Last(c2g_received').data])
           /\ gemini_out' = Append(gemini_out,
                                   UpstreamMsg("clientContent",
                                               << Last(c2g_received').data >>, TRUE))
           /\ c2g_pc' = "send" ]_vars

\* a text frame was recorded and its message was sent to upstream
C18_Witness ==
  /\ c2g_received = << Frame("text", "hi") >>
  /\ transcripts = << [role |-> "user", content |-> "hi"] >>
  /\ ForwardedUpstream = << UpstreamMsg("clientContent", << "hi" >>, TRUE) >>
  /\ c2g_pc = "recv"

\* C19 as stated: the step that receives a user_transcript frame appends
\* its text as a user entry and sends nothing upstream.
C19_UserTranscriptAppended ==
  [][ Receives("user_transcript")
        => /\ transcripts' = Append(transcripts, [role |-> "user",
                                                   content |-> Last(c2g_received').data])
           /\ gemini_out' = gemini_out ]_vars

\* C19 amended: the step that receives a user_transcript frame sends
\* nothing upstream and goes back to receiving; it appends the text as a
\* user entry when the text is not empty and leaves the transcript alone
\* when it is.
C19_UserTranscriptOnly ==
  [][ Receives("user_transcript")
        => /\ transcripts' = IF Last(c2g_received').data # ""
                             THEN Append(transcripts, [role |-> "user",
                                                       content |-> Last(c2g_received').data])
                             ELSE transcripts
           /\ gemini_out' = gemini_out
           /\ c2g_pc' = "recv" ]_vars

\* a user_transcript frame with empty text and one with text were received:
\* one entry, nothing sent upstream
C19_Witness ==
  /\ c2g_received = << Frame("user_transcript", ""), Frame("user_transcript", "me") >>
  /\ transcripts = << [role |-> "user", content |-> "me"] >>
  /\ ForwardedUpstream = <<>>
  /\ c2g_pc = "recv"

BargeIn == UpstreamMsg("realtimeInput", <<>>, FALSE)

\* C20: the step that receives an interrupt frame gives upstream exactly
\* one barge-in message (realtimeInput with no media chunks), whether or
\* not assistant text is pending, and no other step sends one; with no
\* assistant text pending it leaves the transcript and the buffer unchanged.
C20_InterruptBargeIn ==
  [][ /\ Receives("interrupt")
         => /\ gemini_out' = Append(gemini_out, BargeIn)
            /\ current_response = <<>>
                 => (transcripts' = transcripts /\ current_response' = <<>>)
      /\ (gemini_out' # gemini_out /\ Last(gemini_out') = BargeIn)
         => Receives("interrupt") ]_vars

\* two interrupts arrived with no assistant text pending: two barge-ins went
\* upstream and nothing else changed
C20_Witness ==
  /\ Len(c2g_received) = 2
  /\ c2g_received[1].type = "interrupt" /\ c2g_received[2].type = "interrupt"
  /\ ForwardedUpstream = << BargeIn, BargeIn >>
  /\ transcripts = <<>>
  /\ current_response = <<>>
  /\ c2g_pc = "recv"


IsTurnFrame(x) == x.type \in {"text", "turn_complete", "interrupted"}

\* the text deltas and turn signals the client was sent, in the order sent
StreamedSignals ==
  LET fs == SelectSeq(client_out, IsTurnFrame)
  IN [i \in 1..Len(fs) |-> [kind |-> fs[i].type, text |-> fs[i].data]]

\* C21: a text delta is sent to the client as a text frame in the step that
\* buffers it, so all text frames of a turn are sent before the turn's
\* turn_complete or interrupted frame: the text frames sent since the last
\* such frame are exactly the pending buffer, and the assistant entries are
\* exactly the concatenations of the text frames sent before each of them.
C21_TextBeforeSignal ==
  LET seen == Prescribed(StreamedSignals, <<>>, <<>>)
      got == SelectSeq(transcripts, IsAssistant)
  IN /\ seen.pending = current_response
     /\ Len(got) = Len(seen.entries)
     /\ \A i \in 1..Len(got) : got[i].content = seen.entries[i]

\* one upstream message carried two text deltas and turnComplete: the client
\* was sent both text frames and then the turn_complete frame
C21_Witness ==
  /\ Len(g2c_received) = 1
  /\ Len(client_out) >= 3
  /\ client_out[Len(client_out) - 2] = [type |-> "text", data |-> "Hello"]
  /\ client_out[Len(client_out) - 1] = [type |-> "text", data |-> " there"]
  /\ Last(client_out).type = "turn_complete"
  /\ transcripts = << [role |-> "assistant", content |-> "Hello there"] >>

\* the text of the part a buffered delta came from ("" for a part without text)
DeltaText(src) ==
  LET part == g2c_received[src.msg].parts[src.part]
  IN IF part.text = <<>> THEN "" ELSE part.text[1]

\* C22: a step that sends an audio or tool_call frame to the client leaves
\* the pending buffer and the transcript unchanged, and every assistant
\* entry is the concatenation of upstream text deltas only.
C22_OnlyTextBuffered ==
  /\ [][ (Len(client_out') = Len(client_out) + 1
            /\ Last(client_out').type \in {"audio", "tool_call"})
           => (current_response' = current_response /\ transcripts' = transcripts) ]_vars
  /\ [](\A i \in 1..Len(finalized) :
          finalized[i].role = "assistant"
            => finalized[i].content
                 = Join([a \in 1..Len(finalized[i].src) |-> DeltaText(finalized[i].src[a])]))

\* the audio of a part was sent after a text delta had been buffered, and
\* the turn was then finalized with the text alone
C22_Witness ==
  /\ Len(client_out) >= 3
  /\ client_out[Len(client_out) - 1].type = "audio"
  /\ Last(client_out).type = "turn_complete"
  /\ transcripts = << [role |-> "assistant", content |-> " there"] >>

\* the frames the upstream->client forwarder is to send for the parts of a
\* modelTurn, in part order
RECURSIVE PartFrames(_)
PartFrames(ps) ==
  IF ps = <<>> THEN <<>>
  ELSE (IF Head(ps).text # <<>> THEN << [type |-> "text", data |-> Head(ps).text[1]] >> ELSE <<>>)
       \o (IF Head(ps).audio THEN << [type |-> "audio", data |-> "pcm"] >> ELSE <<>>)
       \o PartFrames(Tail(ps))

\* the frames due for one upstream message
MessageFrames(m) ==
  IF m.wire # "object" THEN <<>>
  ELSE IF m.kind = "serverContent"
       THEN PartFrames(m.parts)
            \o (IF m.turnComplete THEN << [type |-> "turn_complete", data |-> "true"] >> ELSE <<>>)
            \o (IF m.interrupted THEN << [type |-> "interrupted", data |-> "true"] >> ELSE <<>>)
  ELSE IF m.kind = "toolCall" THEN << [type |-> "tool_call", data |-> "toolCall"] >>
  ELSE <<>>

\* the frames due for a sequence of upstream messages
RECURSIVE ReceivedFrames(_)
ReceivedFrames(ms) ==
  IF ms = <<>> THEN <<>> ELSE MessageFrames(Head(ms)) \o ReceivedFrames(Tail(ms))

\* the frames the upstream->client forwarder gave to send_json (all but the
\* status frame)
Downstream ==
  IF client_out # <<>> /\ client_out[1] = StatusFrame THEN Tail(client_out) ELSE client_out

IsPrefix(a, b) == Len(a) <= Len(b) /\ SubSeq(b, 1, Len(a)) = a

ClientChannelFailed == c2g_exit = "disconnect" \/ g2c_exit = "send_error"
UpstreamChannelFailed == c2g_exit = "send_error" \/ g2c_exit = "closed"

\* no frame or message is sent twice, and upstream is dialed at most once
SentAtMostOnce ==
  /\ Len(ForwardedUpstream) <= Len(SelectSeq(c2g_received, Forwardable))
  /\ ForwardingStarted => Len(Downstream) <= Len(ReceivedFrames(g2c_received))
  /\ dialed <= 1

\* C23 as stated: nothing is sent twice, upstream is dialed once, and after
\* a send or receive on a channel has failed no further send is attempted
\* on that channel by anyone.
C23_NoSendAfterFailure ==
  [][ /\ SentAtMostOnce'
      /\ ClientChannelFailed => client_out' = client_out
      /\ UpstreamChannelFailed => gemini_out' = gemini_out
      /\ (sm_pc = "status_send" /\ sm_pc' = "finally") => client_out' = client_out ]_vars

\* C23 amended: nothing is sent twice, upstream is dialed once, and a
\* forwarder whose send or receive failed has ended: it receives and sends
\* nothing more on the channel it writes to.
C23_NoRetry ==
  [][ /\ SentAtMostOnce'
      /\ c2g_exit # "none"
           => (c2g_pc' = "done" /\ gemini_out' = gemini_out /\ c2g_received' = c2g_received)
      /\ g2c_exit # "none"
           => (g2c_pc' = "done" /\ client_out' = client_out /\ g2c_received' = g2c_received) ]_vars

\* send_json raised in the middle of a message: the rest of its frames was
\* never sent and the session ended on its one upstream connection
C23_Witness ==
  /\ sm_pc = "closed"
  /\ g2c_exit = "send_error"
  /\ g2c_pc = "done"
  /\ Len(Downstream) < Len(ReceivedFrames(g2c_received))
  /\ dialed = 1

\* C24: the frames given to the client are sent in upstream receipt order
\* and, within a message, in part order before the turn signals: they are a
\* prefix of the frames due for the messages received, complete for every
\* message but the last.
C24_DownstreamOrder ==
  ForwardingStarted =>
    /\ IsPrefix(Downstream, ReceivedFrames(g2c_received))
    /\ g2c_received # <<>> =>
         Len(Downstream) >= Len(ReceivedFrames(SubSeq(g2c_received, 1, Len(g2c_received) - 1)))

\* a text delta, then a message with a text and an audio part and
\* turnComplete: four frames in that order
C24_Witness ==
  /\ Len(g2c_received) = 2
  /\ Len(Downstream) = 4
  /\ Downstream[1].type = "text" /\ Downstream[2].type = "text"
  /\ Downstream[3].type = "audio" /\ Downstream[4].type = "turn_complete"

\* C25: a session with an empty transcript never has anything stored: the
\* sink is not called, or is called with the empty list and returns; it
\* never fails, and the session ends closed with no upstream connection open.
C25_EmptySession ==
  transcripts = <<>> =>
    /\ \/ sink_calls = <<>>
       \/ (Len(sink_calls) = 1 /\ sink_calls[1].transcripts = <<>> /\ sink_result = "ok")
    /\ sink_result # "failed"
    /\ sm_pc = "closed" => gemini_ws # "open"

\* the client, with persistence identifiers, disconnected before any frame
\* was exchanged; the session is closed and the sink was not called
C25_Witness ==
  /\ sm_pc = "closed"
  /\ PersistenceEnabled
  /\ c2g_exit = "disconnect"
  /\ c2g_received = <<>> /\ g2c_received = <<>>
  /\ transcripts = <<>>
  /\ sink_calls = <<>>

IsUser(e) == e.role = "user"

\* frames for which the client->upstream forwarder is to record a user entry
Recorded(f) ==
  f.wire = "object" /\ (f.type = "text" \/ (f.type = "user_transcript" /\ f.data # ""))

\* C26: the handler reads one frame before it dials upstream; reading it
\* sends nothing upstream and records nothing, whatever its type; before
\* the forwarders start no client frame was forwarded or recorded, and the
\* user entries are those of the frames the forwarder received.
C26_FirstFrameConsumed ==
  /\ [](dialed > 0 => first_frame # <<>>)
  /\ [](~ForwardingStarted =>
          (transcripts = <<>> /\ c2g_received = <<>> /\ ForwardedUpstream = <<>>))
  /\ [](Len(SelectSeq(transcripts, IsUser)) = Len(SelectSeq(c2g_received, Recorded)))
  /\ [][ first_frame' # first_frame
           => /\ first_frame = <<>>
              /\ gemini_out' = gemini_out
              /\ transcripts' = transcripts
              /\ c2g_received' = c2g_received ]_vars

\* the first frame was a text frame: it is in no transcript and was not
\* forwarded; the audio frame after it was
C26_Witness ==
  /\ first_frame = << Frame("text", "hi") >>
  /\ sm_pc = "forwarding"
  /\ c2g_received = << Frame("audio", "pcm") >>
  /\ ForwardedUpstream = << UpstreamMsg("realtimeInput", << "pcm" >>, FALSE) >>
  /\ transcripts = <<>>

\* the text frames the client was sent after the last turn signal
PendingText == Prescribed(StreamedSignals, <<>>, <<>>).pending

\* C27: when the session has ended, every text delta sent to the client is
\* in a transcript entry: no text frame was sent after the last
\* turn_complete or interrupted frame.
C27_StreamedTextKept ==
  sm_pc = "closed" => PendingText = <<>>

\* C28: once the handler has cancelled the pending forwarder nothing is
\* appended to the transcript and nothing is sent in either direction, and
\* the sink is given the transcript as it stood.
C28_QuietAfterCancel ==
  /\ [][ (sm_pc \in {"finally", "closed"})
           => /\ transcripts' = transcripts
              /\ gemini_out' = gemini_out
              /\ client_out' = client_out
              /\ sink_calls' # sink_calls
                   => sink_calls' = << [user_id |-> user_id,
                                        conversation_id |-> conversation_id,
                                        transcripts |-> transcripts] >>
              /\ c2g_received' = c2g_received /\ g2c_received' = g2c_received ]_vars
  /\ [][ (sm_pc = "forwarding" /\ sm_pc' = "finally")
           => (transcripts' = transcripts /\ ~Running(c2g_pc') /\ ~Running(g2c_pc')) ]_vars

\* the client disconnected while the other forwarder was awaiting the send
\* of a turn_complete frame with the interrupted stage of the message still
\* to come; it was cancelled there and the sink got the one entry
C28_Witness ==
  /\ sm_pc = "closed"
  /\ c2g_exit = "disconnect"
  /\ g2c_pc = "cancelled"
  /\ g2c_msg # <<>> /\ g2c_msg[1].interrupted
  /\ Last(client_out).type = "turn_complete"
  /\ Len(sink_calls) = 1
  /\ sink_calls[1].transcripts = transcripts

IsTextFrame(f) == f.wire = "object" /\ f.type = "text"
ByText(e) == e.by = "text"
IsTextTurn(m) == m.kind = "clientContent" /\ m.payload # <<>>

\* C29 as stated: a user entry of a text frame is there only if the send of
\* its message succeeded: when the send of the last text frame failed, the
\* entries are those of the text frames before it.
C29_TextEntryOnlyIfSent ==
  (c2g_exit = "send_error" /\ c2g_received # <<>> /\ IsTextFrame(Last(c2g_received)))
    => Len(SelectSeq(finalized, ByText)) = Len(SelectSeq(c2g_received, IsTextFrame)) - 1

\* C29 amended: every text frame received has its user entry, recorded
\* before the send of its message is attempted, and every such entry has a
\* message given to gemini_ws.send; the entry stays when that send fails,
\* and is then in the list the sink is given.
C29_TextEntryRecordedFirst ==
  /\ Len(SelectSeq(finalized, ByText)) = Len(SelectSeq(c2g_received, IsTextFrame))
  /\ Len(SelectSeq(ForwardedUpstream, IsTextTurn)) = Len(SelectSeq(finalized, ByText))
  /\ (sink_calls # <<>> /\ c2g_exit = "send_error")
       => Len(SelectSeq(sink_calls[1].transcripts, IsUser))
            = Len(SelectSeq(c2g_received, Recorded))

\* the send of a text frame's message raised; the sink was given the entry
C29_Witness ==
  /\ sm_pc = "closed"
  /\ c2g_exit = "send_error"
  /\ c2g_received = << Frame("text", "hi") >>
  /\ Len(sink_calls) = 1
  /\ sink_calls[1].transcripts = << [role |-> "user", content |-> "hi"] >>

\* the step is one of the handler (every step of it moves sm_pc)
HandlerStep == sm_pc' # sm_pc
\* the step is one of the client->upstream forwarder
C2GStep == sm_pc' = sm_pc /\ Running(c2g_pc) /\ UNCHANGED g2cVars
\* the step is one of the upstream->client forwarder
G2CStep == sm_pc' = sm_pc /\ Running(g2c_pc) /\ UNCHANGED << c2g_pc, c2g_received, c2g_exit >>

\* C30: each channel has one writer at a time: a send on the upstream
\* channel is made by the handler while no forwarder runs or by the
\* client->upstream forwarder in the forwarding phase; a send to the client
\* is made by the handler while no forwarder runs, before and after the
\* step, or by the upstream->client forwarder in the forwarding phase.
C30_SingleWriter ==
  [][ /\ gemini_out' # gemini_out
         => \/ (HandlerStep /\ ~ForwardingStarted /\ ~ForwardingStarted')
            \/ (C2GStep /\ sm_pc = "forwarding")
      /\ client_out' # client_out
         => \/ (HandlerStep /\ ~Running(c2g_pc) /\ ~Running(g2c_pc)
                            /\ ~Running(c2g_pc') /\ ~Running(g2c_pc'))
            \/ (G2CStep /\ sm_pc = "forwarding") ]_vars

\* after the handler's status frame both forwarders are awaiting a send,
\* each on its own channel
C30_Witness ==
  /\ sm_pc = "forwarding"
  /\ client_out # <<>> /\ client_out[1] = StatusFrame
  /\ c2g_pc = "send"
  /\ g2c_pc = "send"

=============================================================================
